---- MODULE Spec2Model ----
(***************************************************************************)
(* Model of the volume engine of Tools/uvf2volume/uvf2volume.py and        *)
(* Tools/uvf2volume_soll.py: interval normalisation and step integration   *)
(* (calculate_volume), the hydrologic-year split                           *)
(* (compute_hydrologic_year_volumes), the daily extremes                   *)
(* (get_daily_extremes) and the table lookup (load_table_2col, interp).    *)
(*                                                                          *)
(* A datetime is the number of seconds since 1970-01-01 00:00:00 (naive     *)
(* datetimes compare and subtract chronologically); a sample is the pair    *)
(* <<t, q>> the parser appends.  Flow values and table entries are small    *)
(* naturals, and interp computes in exact rationals: floating-point         *)
(* rounding is not modelled.                                                *)
(***************************************************************************)
EXTENDS Integers, Sequences, FiniteSets, TLC

VARIABLES data, start_time, end_time, volume, yearly_results, extremes,
          rows, xs, ys, x, y, pc

vars == <<data, start_time, end_time, volume, yearly_results, extremes,
          rows, xs, ys, x, y, pc>>

(***************************************************************************)
(* Bounds of the model.                                                    *)
(***************************************************************************)
\* longest series (number of samples)
MaxLen == 4
\* largest flow value q of a sample
MaxQ == 1
\* most rows of a lookup table
MaxRows == 4
\* largest x of a table row
MaxX == 2
\* largest y of a table row
MaxY == 1

(***************************************************************************)
(* datetime: the proleptic Gregorian calendar, as seconds since 1970.      *)
(***************************************************************************)
\* days from 1970-01-01 to the civil date y-m-d
DaysFromCivil(yr, mo, dy) ==
  LET yy  == IF mo <= 2 THEN yr - 1 ELSE yr
      era == yy \div 400
      yoe == yy - era * 400
      mp  == IF mo > 2 THEN mo - 3 ELSE mo + 9
      doy == (153 * mp + 2) \div 5 + dy - 1
      doe == yoe * 365 + yoe \div 4 - yoe \div 100 + doy
  IN  era * 146097 + doe - 719468

\* datetime(year, month, day, hour, minute, second)
datetime(yr, mo, dy, hh, mi, ss) ==
  DaysFromCivil(yr, mo, dy) * 86400 + hh * 3600 + mi * 60 + ss

\* the civil date <<year, month, day>> of a datetime
CivilFromDays(z0) ==
  LET z   == z0 + 719468
      era == z \div 146097
      doe == z - era * 146097
      yoe == (doe - doe \div 1460 + doe \div 36524 - doe \div 146096) \div 365
      doy == doe - (365 * yoe + yoe \div 4 - yoe \div 100)
      mp  == (5 * doy + 2) \div 153
      dy  == doy - (153 * mp + 2) \div 5 + 1
      mo  == IF mp < 10 THEN mp + 3 ELSE mp - 9
      yr  == yoe + era * 400 + (IF mo <= 2 THEN 1 ELSE 0)
  IN  <<yr, mo, dy>>

\* dt.year
YearOf(dt) == CivilFromDays(dt \div 86400)[1]

\* dt.month
MonthOf(dt) == CivilFromDays(dt \div 86400)[2]

\* (b - a).total_seconds()
total_seconds(a, b) == b - a

(***************************************************************************)
(* The series: what parse_uvf returns, a list of (datetime, q) sorted by   *)
(* time with a stable sort, so equal timestamps stay in file order.        *)
(***************************************************************************)
\* timestamps of the measurements (minute resolution), across 31 Oct / 1 Nov
SampleTimes ==
  { datetime(1999, 10, 31, 23, 50, 0),
    datetime(1999, 10, 31, 23, 55, 0),
    datetime(1999, 11, 1, 0, 0, 0) }

\* flow values: parse_uvf drops q < 0
Flows == 0 .. MaxQ

\* data.sort(key=lambda x: x[0]) leaves the list in non-decreasing time order
IsTimeOrdered(d) ==
  \A i \in 1 .. Len(d) - 1 : d[i][1] <= d[i + 1][1]

SeriesOfLen(n) ==
  { d \in [1 .. n -> SampleTimes \X Flows] : IsTimeOrdered(d) }

\* main() stops with "No valid data read from file." on an empty list
Series == UNION { SeriesOfLen(n) : n \in 1 .. MaxLen }

(***************************************************************************)
(* calculate_volume                                                        *)
(***************************************************************************)
\* NormalizeInterval without the swap of start_time > end_time
NormalizeNoSwap(d, start0, end0) ==
  IF d = <<>> THEN <<>>
  ELSE IF start0 = end0 THEN <<>>
  ELSE
    LET data_start == d[1][1]
        data_end   == d[Len(d)][1]
    IN  IF end0 <= data_start THEN <<>>
        ELSE IF start0 >= data_end THEN <<>>
        ELSE
          LET s2 == IF start0 < data_start THEN data_start ELSE start0
              e2 == IF end0 > data_end THEN data_end ELSE end0
          IN  IF s2 >= e2 THEN <<>> ELSE <<s2, e2>>

\* NormalizeInterval without the clip of start_time to the first timestamp
NormalizeNoClip(d, start0, end0) ==
  IF d = <<>> THEN <<>>
  ELSE IF start0 = end0 THEN <<>>
  ELSE
    LET s1 == IF start0 > end0 THEN end0 ELSE start0
        e1 == IF start0 > end0 THEN start0 ELSE end0
        data_start == d[1][1]
        data_end   == d[Len(d)][1]
    IN  IF e1 <= data_start THEN <<>>
        ELSE IF s1 >= data_end THEN <<>>
        ELSE
          LET e2 == IF e1 > data_end THEN data_end ELSE e1
          IN  IF s1 >= e2 THEN <<>> ELSE <<s1, e2>>

\* NormalizeInterval that clips an interval outside the data range instead of
\* returning early, and gives up only on an interval of zero width
NormalizeNoRangeCheck(d, start0, end0) ==
  IF d = <<>> THEN <<>>
  ELSE IF start0 = end0 THEN <<>>
  ELSE
    LET s1 == IF start0 > end0 THEN end0 ELSE start0
        e1 == IF start0 > end0 THEN start0 ELSE end0
        data_start == d[1][1]
        data_end   == d[Len(d)][1]
        s2 == IF s1 < data_start THEN data_start ELSE s1
        e2 == IF e1 > data_end THEN data_end ELSE e1
    IN  IF s2 = e2 THEN <<>> ELSE <<s2, e2>>

\* the interval after swap, range checks and clipping; <<>> when the
\* function returns 0.0 before integrating
NormalizeInterval(d, start0, end0) ==
  IF d = <<>> THEN <<>>
  ELSE IF start0 = end0 THEN <<>>
  ELSE
    LET s1 == IF start0 > end0 THEN end0 ELSE start0
        e1 == IF start0 > end0 THEN start0 ELSE end0
        data_start == d[1][1]
        data_end   == d[Len(d)][1]
    IN  IF e1 <= data_start THEN <<>>
        ELSE IF s1 >= data_end THEN <<>>
        ELSE
          LET s2 == IF s1 < data_start THEN data_start ELSE s1
              e2 == IF e1 > data_end THEN data_end ELSE e1
          IN  IF s2 >= e2 THEN <<>> ELSE <<s2, e2>>

\* the loop "for t, q in data: if t > start_time: break; prev = t, q":
\* the index of the sample it leaves in prev_time, prev_q (0 for None)
RECURSIVE FindQAtStart(_, _, _, _)
FindQAtStart(d, s, i, prev) ==
  IF i > Len(d) THEN prev
  ELSE IF d[i][1] > s THEN prev
  ELSE FindQAtStart(d, s, i + 1, i)

\* Accumulate skipping only the samples before prev_time (t < prev_time)
RECURSIVE AccumulateFromEqual(_, _, _, _)
AccumulateFromEqual(d, e, i, acc) ==
  IF i > Len(d) THEN acc
  ELSE
    LET t == d[i][1]
        q == d[i][2]
    IN  IF t < acc.prev_time THEN AccumulateFromEqual(d, e, i + 1, acc)
        ELSE IF t >= e
          THEN LET dt == total_seconds(acc.prev_time, e)
               IN  [acc EXCEPT !.total_volume = @ + acc.prev_q * dt,
                               !.dts = Append(@, dt)]
          ELSE LET dt == total_seconds(acc.prev_time, t)
               IN  AccumulateFromEqual(d, e, i + 1,
                     [prev_time |-> t, prev_q |-> q,
                      total_volume |-> acc.total_volume + acc.prev_q * dt,
                      dts |-> Append(acc.dts, dt)])

\* the loop accumulating q*dt until end_time; acc carries prev_time, prev_q,
\* total_volume and the time deltas multiplied so far
RECURSIVE Accumulate(_, _, _, _)
Accumulate(d, e, i, acc) ==
  IF i > Len(d) THEN acc
  ELSE
    LET t == d[i][1]
        q == d[i][2]
    IN  IF t <= acc.prev_time THEN Accumulate(d, e, i + 1, acc)
        ELSE IF t >= e
          THEN LET dt == total_seconds(acc.prev_time, e)
               IN  [acc EXCEPT !.total_volume = @ + acc.prev_q * dt,
                               !.dts = Append(@, dt)]
          ELSE LET dt == total_seconds(acc.prev_time, t)
               IN  Accumulate(d, e, i + 1,
                     [prev_time |-> t, prev_q |-> q,
                      total_volume |-> acc.total_volume + acc.prev_q * dt,
                      dts |-> Append(acc.dts, dt)])

\* the walk of calculate_volume: its result and the time deltas it multiplied
VolumeWalk(d, start0, end0) ==
  LET iv == NormalizeInterval(d, start0, end0)
  IN  IF iv = <<>> THEN [total_volume |-> 0, dts |-> <<>>]
      ELSE
        LET a == FindQAtStart(d, iv[1], 1, 0)
        IN  IF a = 0 THEN [total_volume |-> 0, dts |-> <<>>]
            ELSE
              LET w == Accumulate(d, iv[2], 1,
                         [prev_time |-> IF d[a][1] < iv[1] THEN iv[1] ELSE d[a][1],
                          prev_q |-> d[a][2],
                          total_volume |-> 0,
                          dts |-> <<>>])
              IN  [total_volume |-> w.total_volume, dts |-> w.dts]

calculate_volume(d, start0, end0) == VolumeWalk(d, start0, end0).total_volume

(***************************************************************************)
(* The interval volume run: main() with --volume.                          *)
(***************************************************************************)
\* instants a caller asks about: the sample times, one between two samples,
\* one before the first and one after the last
QueryTimes ==
  SampleTimes \cup
  { datetime(1999, 10, 31, 23, 45, 0),
    datetime(1999, 10, 31, 23, 52, 30),
    datetime(1999, 11, 1, 0, 5, 0) }

InitVolume ==
  /\ data \in Series
  /\ start_time = 0 /\ end_time = 0
  /\ volume = 0
  /\ yearly_results = <<>>
  /\ extremes = <<>>
  /\ rows = <<>> /\ xs = <<>> /\ ys = <<>>
  /\ x = 0 /\ y = [kind |-> "value", num |-> 0, den |-> 1]
  /\ pc = "parsed"

\* write_volume_interval_txt: vol = calculate_volume(data, start_time, end_time)
CalcVolume ==
  /\ pc = "parsed"
  /\ \E s \in QueryTimes, e \in QueryTimes :
       /\ start_time' = s
       /\ end_time' = e
       /\ volume' = calculate_volume(data, s, e)
  /\ pc' = "calculate_volume"
  /\ UNCHANGED <<data, yearly_results, extremes, rows, xs, ys, x, y>>

NextVolume == CalcVolume

SpecVolume == InitVolume /\ [][NextVolume]_vars

(***************************************************************************)
(* compute_hydrologic_year_volumes                                         *)
(***************************************************************************)
\* _hydro_year
_hydro_year(dt) == IF MonthOf(dt) <= 10 THEN YearOf(dt) ELSE YearOf(dt) + 1

\* the loop over range(first_hy, last_hy) that leaves the last year out
RECURSIVE HydroLoopExclusive(_, _, _, _, _, _)
HydroLoopExclusive(d, s, e, year, last_hy, results) ==
  IF year >= last_hy THEN results
  ELSE
    LET hydro_start == datetime(year - 1, 11, 1, 0, 0, 0)
        hydro_end   == datetime(year, 10, 31, 23, 59, 59)
        interval_start == IF s >= hydro_start THEN s ELSE hydro_start
        interval_end   == IF e <= hydro_end THEN e ELSE hydro_end
    IN  IF interval_start >= interval_end
          THEN HydroLoopExclusive(d, s, e, year + 1, last_hy, results)
          ELSE HydroLoopExclusive(d, s, e, year + 1, last_hy,
                 Append(results,
                   [year |-> year,
                    interval_start |-> interval_start,
                    interval_end |-> interval_end,
                    volume_m3 |-> calculate_volume(d, interval_start, interval_end)]))

\* the loop "for year in range(first_hy, last_hy + 1)"
RECURSIVE HydroLoop(_, _, _, _, _, _)
HydroLoop(d, s, e, year, last_hy, results) ==
  IF year > last_hy THEN results
  ELSE
    LET hydro_start == datetime(year - 1, 11, 1, 0, 0, 0)
        hydro_end   == datetime(year, 10, 31, 23, 59, 59)
        interval_start == IF s >= hydro_start THEN s ELSE hydro_start
        interval_end   == IF e <= hydro_end THEN e ELSE hydro_end
    IN  IF interval_start >= interval_end
          THEN HydroLoop(d, s, e, year + 1, last_hy, results)
          ELSE HydroLoop(d, s, e, year + 1, last_hy,
                 Append(results,
                   [year |-> year,
                    interval_start |-> interval_start,
                    interval_end |-> interval_end,
                    volume_m3 |-> calculate_volume(d, interval_start, interval_end)]))

compute_hydrologic_year_volumes(d, start0, end0) ==
  LET s == IF start0 > end0 THEN end0 ELSE start0
      e == IF start0 > end0 THEN start0 ELSE end0
  IN  HydroLoop(d, s, e, _hydro_year(s), _hydro_year(e), <<>>)

(***************************************************************************)
(* The hydrologic-year run: main() with --volume_hydro_year.               *)
(***************************************************************************)
\* instants a caller asks about: around the turn of the hydrologic year
\* 1999/2000, where the samples lie, and in the years before and after
HydroQueryTimes ==
  { datetime(1997, 6, 15, 0, 0, 0),
    datetime(1998, 11, 1, 0, 0, 0),
    datetime(1999, 10, 31, 23, 55, 0),
    datetime(1999, 10, 31, 23, 59, 59),
    datetime(1999, 11, 1, 0, 0, 0),
    datetime(1999, 11, 1, 0, 5, 0),
    datetime(2000, 10, 31, 23, 59, 59),
    datetime(2001, 3, 1, 12, 0, 0) }

\* timestamps of the measurements for the hydrologic-year run: the last
\* before the turn of the hydrologic year, the turn itself, the first after
HydroSampleTimes ==
  { datetime(1999, 10, 31, 23, 55, 0),
    datetime(1999, 11, 1, 0, 0, 0),
    datetime(1999, 11, 1, 0, 5, 0) }

HydroSeries ==
  UNION { { d \in [1 .. n -> HydroSampleTimes \X Flows] : IsTimeOrdered(d) }
          : n \in 1 .. MaxLen }

InitHydro ==
  /\ data \in HydroSeries
  /\ start_time = 0 /\ end_time = 0
  /\ volume = 0
  /\ yearly_results = <<>>
  /\ extremes = <<>>
  /\ rows = <<>> /\ xs = <<>> /\ ys = <<>>
  /\ x = 0 /\ y = [kind |-> "value", num |-> 0, den |-> 1]
  /\ pc = "parsed"

\* yearly_results = compute_hydrologic_year_volumes(data, start_time, end_time)
HydroVolumes ==
  /\ pc = "parsed"
  /\ \E s \in HydroQueryTimes, e \in HydroQueryTimes :
       /\ start_time' = s
       /\ end_time' = e
       /\ yearly_results' = compute_hydrologic_year_volumes(data, s, e)
  /\ pc' = "compute_hydrologic_year_volumes"
  /\ UNCHANGED <<data, volume, extremes, rows, xs, ys, x, y>>

NextHydro == HydroVolumes

SpecHydro == InitHydro /\ [][NextHydro]_vars

(***************************************************************************)
(* get_daily_extremes                                                      *)
(***************************************************************************)
\* t.date(): the calendar day <<year, month, day>> of a datetime
date(t) == CivilFromDays(t \div 86400)

\* no day yet: current_day, day_min, day_max are None
NoDay == [current_day |-> <<>>, day_min |-> 0, day_max |-> 0, results |-> <<>>]

\* the scan that stops at the first sample with t >= end_time
RECURSIVE ExtremesScanEndExclusive(_, _, _, _, _)
ExtremesScanEndExclusive(d, s, e, i, st) ==
  IF i > Len(d) THEN st
  ELSE
    LET t == d[i][1]
        q == d[i][2]
        day == date(t)
    IN  IF t < s THEN ExtremesScanEndExclusive(d, s, e, i + 1, st)
        ELSE IF t >= e THEN st
        ELSE IF st.current_day = <<>>
          THEN ExtremesScanEndExclusive(d, s, e, i + 1,
                 [st EXCEPT !.current_day = day, !.day_min = q, !.day_max = q])
        ELSE IF day = st.current_day
          THEN ExtremesScanEndExclusive(d, s, e, i + 1,
                 [st EXCEPT !.day_min = IF q < @ THEN q ELSE @,
                            !.day_max = IF q > @ THEN q ELSE @])
          ELSE ExtremesScanEndExclusive(d, s, e, i + 1,
                 [current_day |-> day, day_min |-> q, day_max |-> q,
                  results |-> Append(st.results,
                    [date |-> st.current_day, min |-> st.day_min,
                     max |-> st.day_max])])

\* the loop "for t, q in data" of get_daily_extremes; st carries current_day,
\* day_min, day_max and results
RECURSIVE ExtremesScan(_, _, _, _, _)
ExtremesScan(d, s, e, i, st) ==
  IF i > Len(d) THEN st
  ELSE
    LET t == d[i][1]
        q == d[i][2]
        day == date(t)
    IN  IF t < s THEN ExtremesScan(d, s, e, i + 1, st)
        ELSE IF t > e THEN st
        ELSE IF st.current_day = <<>>
          THEN ExtremesScan(d, s, e, i + 1,
                 [st EXCEPT !.current_day = day, !.day_min = q, !.day_max = q])
        ELSE IF day = st.current_day
          THEN ExtremesScan(d, s, e, i + 1,
                 [st EXCEPT !.day_min = IF q < @ THEN q ELSE @,
                            !.day_max = IF q > @ THEN q ELSE @])
          ELSE ExtremesScan(d, s, e, i + 1,
                 [current_day |-> day, day_min |-> q, day_max |-> q,
                  results |-> Append(st.results,
                    [date |-> st.current_day, min |-> st.day_min,
                     max |-> st.day_max])])

get_daily_extremes(d, start0, end0) ==
  LET s == IF start0 > end0 THEN end0 ELSE start0
      e == IF start0 > end0 THEN start0 ELSE end0
      st == ExtremesScan(d, s, e, 1, NoDay)
  IN  IF st.current_day # <<>>
        THEN Append(st.results,
               [date |-> st.current_day, min |-> st.day_min, max |-> st.day_max])
        ELSE st.results

(***************************************************************************)
(* The daily extremes run: main() with --extreme.                          *)
(***************************************************************************)
\* extremes = get_daily_extremes(data, start_time, end_time)
DailyExtremes ==
  /\ pc = "parsed"
  /\ \E s \in QueryTimes, e \in QueryTimes :
       /\ start_time' = s
       /\ end_time' = e
       /\ extremes' = get_daily_extremes(data, s, e)
  /\ pc' = "get_daily_extremes"
  /\ UNCHANGED <<data, volume, yearly_results, rows, xs, ys, x, y>>

NextExtremes == DailyExtremes

SpecExtremes == InitVolume /\ [][NextExtremes]_vars

(***************************************************************************)
(* The lookup table of uvf2volume_soll.py: load_table_2col and interp.     *)
(***************************************************************************)
\* the (x, y) rows read from the CSV file, in file order
TableRows ==
  UNION { [1 .. n -> (0 .. MaxX) \X (0 .. MaxY)] : n \in 0 .. MaxRows }

\* sorted(..., key=...) is stable: insert index i after every index already
\* placed whose key is <= its own
RECURSIVE InsertByKey(_, _, _)
InsertByKey(order, i, key) ==
  IF order = <<>> THEN <<i>>
  ELSE IF key[Head(order)] <= key[i]
    THEN <<Head(order)>> \o InsertByKey(Tail(order), i, key)
    ELSE <<i>> \o order

\* order = sorted(range(len(xs)), key=lambda i: xs[i])
RECURSIVE SortedIndices(_, _)
SortedIndices(key, n) ==
  IF n = 0 THEN <<>>
  ELSE InsertByKey(SortedIndices(key, n - 1), n, key)

\* load_table_2col: the columns of the rows, reordered by x
load_table_2col(rws) ==
  LET xs0 == [i \in 1 .. Len(rws) |-> rws[i][1]]
      ys0 == [i \in 1 .. Len(rws) |-> rws[i][2]]
      order == SortedIndices(xs0, Len(rws))
  IN  <<[k \in 1 .. Len(rws) |-> xs0[order[k]]],
        [k \in 1 .. Len(rws) |-> ys0[order[k]]]>>

\* the search of bisect_right: it passes the elements equal to v
RECURSIVE BisectPastEqual(_, _, _, _)
BisectPastEqual(a, v, lo, hi) ==
  IF lo >= hi THEN lo
  ELSE
    LET mid == (lo + hi) \div 2
    IN  IF a[mid + 1] <= v THEN BisectPastEqual(a, v, mid + 1, hi)
        ELSE BisectPastEqual(a, v, lo, mid)

\* bisect.bisect_left(a, v): the binary search between lo and hi (0-based)
RECURSIVE bisect_left(_, _, _, _)
bisect_left(a, v, lo, hi) ==
  IF lo >= hi THEN lo
  ELSE
    LET mid == (lo + hi) \div 2
    IN  IF a[mid + 1] < v THEN bisect_left(a, v, mid + 1, hi)
        ELSE bisect_left(a, v, lo, mid)

RECURSIVE GCD(_, _)
GCD(a, b) == IF b = 0 THEN a ELSE GCD(b, a % b)

Abs(n) == IF n < 0 THEN -n ELSE n

\* the quotient n / d (d # 0) as a fraction in lowest terms
Fraction(n, d) ==
  LET g == GCD(Abs(n), Abs(d))
      sgn == IF d < 0 THEN -1 ELSE 1
  IN  [kind |-> "value", num |-> sgn * (n \div g), den |-> sgn * (d \div g)]

Whole(n) == [kind |-> "value", num |-> n, den |-> 1]

Raises(e) == [kind |-> e, num |-> 0, den |-> 1]

\* interp whose upper clamp returns ys[0]
InterpLowClampTwice(v, txs, tys) ==
  IF txs = <<>> THEN Raises("IndexError")
  ELSE IF v <= txs[1] THEN Whole(tys[1])
  ELSE IF v >= txs[Len(txs)] THEN Whole(tys[1])
  ELSE
    LET i  == bisect_left(txs, v, 0, Len(txs))
        x0 == txs[i]
        y0 == tys[i]
        x1 == txs[i + 1]
        y1 == tys[i + 1]
    IN  IF x1 - x0 = 0 THEN Raises("ZeroDivisionError")
        ELSE Fraction(y0 * (x1 - x0) + (v - x0) * (y1 - y0), x1 - x0)

\* interp(x, xs, ys); i is the 0-based index bisect_left returns, so xs[i - 1]
\* and xs[i] of the code are txs[i] and txs[i + 1] here;
\* y0 + t * (y1 - y0) with t = (x - x0) / (x1 - x0) is computed exactly
interp(v, txs, tys) ==
  IF txs = <<>> THEN Raises("IndexError")
  ELSE IF v <= txs[1] THEN Whole(tys[1])
  ELSE IF v >= txs[Len(txs)] THEN Whole(tys[Len(tys)])
  ELSE
    LET i  == bisect_left(txs, v, 0, Len(txs))
        x0 == txs[i]
        y0 == tys[i]
        x1 == txs[i + 1]
        y1 == tys[i + 1]
    IN  IF x1 - x0 = 0 THEN Raises("ZeroDivisionError")
        ELSE Fraction(y0 * (x1 - x0) + (v - x0) * (y1 - y0), x1 - x0)

(***************************************************************************)
(* The table run: main() loads the table, parse_uvf remaps each raw value. *)
(***************************************************************************)
InitTable ==
  /\ rows \in TableRows
  /\ xs = <<>> /\ ys = <<>>
  /\ x = 0 /\ y = Whole(0)
  /\ data = <<>> /\ start_time = 0 /\ end_time = 0
  /\ volume = 0 /\ yearly_results = <<>> /\ extremes = <<>>
  /\ pc = "start"

\* xs, ys = load_table_2col(...)
LoadTable ==
  /\ pc = "start"
  /\ xs' = load_table_2col(rows)[1]
  /\ ys' = load_table_2col(rows)[2]
  /\ pc' = "loaded"
  /\ UNCHANGED <<rows, x, y, data, start_time, end_time, volume, yearly_results,
                 extremes>>

\* q_new = interp(q_raw, xs, ys) for a raw value q_raw >= 0
Interp ==
  /\ pc = "loaded"
  /\ \E q_raw \in 0 .. MaxX + 1 :
       /\ x' = q_raw
       /\ y' = interp(q_raw, xs, ys)
  /\ pc' = "interp"
  /\ UNCHANGED <<rows, xs, ys, data, start_time, end_time, volume, yearly_results,
                 extremes>>

NextTable == LoadTable \/ Interp

SpecTable == InitTable /\ [][NextTable]_vars

(***************************************************************************)
(* What the claims about calculate_volume compare its result with.         *)
(***************************************************************************)
first_timestamp(d) == d[1][1]
last_timestamp(d) == d[Len(d)][1]

MinOf(a, b) == IF a <= b THEN a ELSE b
MaxOf(a, b) == IF a >= b THEN a ELSE b

\* the right-continuous step function of the series at instant u: the value
\* of the last sample, in sequence order, with timestamp <= u
StepValue(d, u) ==
  LET last == CHOOSE i \in 1 .. Len(d) :
                /\ d[i][1] <= u
                /\ \A j \in 1 .. Len(d) : d[j][1] <= u => j <= i
  IN  d[last][2]

\* the instants in [a, b] where the step function may change, with a and b
Breakpoints(d, a, b) ==
  {a, b} \cup { d[i][1] : i \in { j \in 1 .. Len(d) : a < d[j][1] /\ d[j][1] < b } }

RECURSIVE SumPieces(_, _, _)
SumPieces(d, P, b) ==
  IF P = {} THEN 0
  ELSE
    LET p == CHOOSE u \in P : \A v \in P : u <= v
        rest == P \ {p}
        nxt == IF rest = {} THEN b ELSE CHOOSE u \in rest : \A v \in rest : u <= v
    IN  StepValue(d, p) * (nxt - p) + SumPieces(d, rest, b)

\* the integral of the step function over [a, b), for a < b inside the span
StepIntegral(d, a, b) == SumPieces(d, Breakpoints(d, a, b) \ {b}, b)

\* sum over all consecutive sample pairs of value[i] * (t[i+1] - t[i])
RECURSIVE PairSum(_, _)
PairSum(d, i) ==
  IF i >= Len(d) THEN 0
  ELSE d[i][2] * (d[i + 1][1] - d[i][1]) + PairSum(d, i + 1)

Called == pc = "calculate_volume"

lo_time == MinOf(start_time, end_time)
hi_time == MaxOf(start_time, end_time)

InsideSpan ==
  /\ data # <<>>
  /\ first_timestamp(data) <= start_time
  /\ start_time < end_time
  /\ end_time <= last_timestamp(data)

\* two samples share a timestamp strictly inside the integrated interval
TieInside ==
  \E i \in 1 .. Len(data) - 1 :
    /\ data[i][1] = data[i + 1][1]
    /\ data[i][2] # data[i + 1][2]
    /\ lo_time < data[i][1]
    /\ data[i][1] < hi_time

(***************************************************************************)
(* C1: for a non-empty time-ordered series and span.start <= start < end   *)
(* <= span.end, calculate_volume equals the integral over [start, end) of  *)
(* the step function whose value at u is that of the last sample with      *)
(* timestamp <= u.                                                         *)
(***************************************************************************)
C1_StepIntegral ==
  (Called /\ InsideSpan) => volume = StepIntegral(data, start_time, end_time)

(***************************************************************************)
(* C2: additivity: for a < b < c inside the span,                          *)
(* calculate_volume(s, a, b) + calculate_volume(s, b, c) equals            *)
(* calculate_volume(s, a, c), also when b is a sample timestamp.           *)
(***************************************************************************)
C2_Additivity ==
  (Called /\ InsideSpan) =>
    \A b \in QueryTimes :
      (start_time < b /\ b < end_time) =>
        calculate_volume(data, start_time, b) + calculate_volume(data, b, end_time)
          = volume

(***************************************************************************)
(* C3: integrating the full span gives the sum over all consecutive sample *)
(* pairs of value[i] * (t[i+1] - t[i]).                                    *)
(***************************************************************************)
C3_FullSpan ==
  (/\ Called
   /\ data # <<>>
   /\ start_time = first_timestamp(data)
   /\ end_time = last_timestamp(data))
  => volume = PairSum(data, 1)

(***************************************************************************)
(* C4: direction symmetry: calculate_volume(s, a, b) equals                *)
(* calculate_volume(s, b, a) for every series and all instants a, b.       *)
(***************************************************************************)
C4_DirectionSymmetry ==
  Called => volume = calculate_volume(data, end_time, start_time)

C4_Witness ==
  Called /\ start_time > end_time /\ volume > 0

(***************************************************************************)
(* C5: clipping idempotence: when [a, b], a < b, overlaps the span,        *)
(* calculate_volume(s, a, b) equals calculate_volume(s, max(a, span.start),*)
(* min(b, span.end)).                                                      *)
(***************************************************************************)
C5_ClippingIdempotence ==
  (/\ Called
   /\ data # <<>>
   /\ start_time < end_time
   /\ start_time <= last_timestamp(data)
   /\ end_time >= first_timestamp(data))
  => volume = calculate_volume(data,
                 MaxOf(start_time, first_timestamp(data)),
                 MinOf(end_time, last_timestamp(data)))

C5_Witness ==
  /\ Called
  /\ data # <<>>
  /\ start_time < first_timestamp(data)
  /\ end_time > last_timestamp(data)
  /\ volume > 0

(***************************************************************************)
(* C6: calculate_volume returns 0 when start = end, and when, after        *)
(* ordering the endpoints, end <= first sample timestamp or start >= last  *)
(* sample timestamp.                                                       *)
(***************************************************************************)
C6_DegenerateIsZero ==
  (/\ Called
   /\ \/ start_time = end_time
      \/ /\ data # <<>>
         /\ \/ hi_time <= first_timestamp(data)
            \/ lo_time >= last_timestamp(data))
  => volume = 0

C6_Witness ==
  /\ Called
  /\ data # <<>>
  /\ \A i \in 1 .. Len(data) : data[i][2] > 0
  /\ first_timestamp(data) < last_timestamp(data)
  /\ start_time # end_time
  /\ hi_time < first_timestamp(data)
  /\ volume = 0

(***************************************************************************)
(* C7: with non-negative values calculate_volume is never negative, and    *)
(* every time delta multiplied into the sum, inner or final, is > 0.       *)
(***************************************************************************)
C7_NonNegative ==
  Called =>
    /\ volume >= 0
    /\ LET dts == VolumeWalk(data, start_time, end_time).dts
       IN  \A i \in 1 .. Len(dts) : dts[i] > 0

C7_Witness ==
  /\ Called
  /\ volume > 0
  /\ Len(VolumeWalk(data, start_time, end_time).dts) >= 2
  /\ TieInside

(***************************************************************************)
(* What the claims about the hydrologic-year split compare it with.        *)
(***************************************************************************)
HydroCalled == pc = "compute_hydrologic_year_volumes"

\* hydrologic year N: [1 Nov N-1 00:00, 31 Oct N 23:59:59]
HydroYearStart(N) == datetime(N - 1, 11, 1, 0, 0, 0)
HydroYearEnd(N) == datetime(N, 10, 31, 23, 59, 59)

\* year(t) = t.year if t.month <= 10 else t.year + 1
HydroYearOf(t) == IF MonthOf(t) <= 10 THEN YearOf(t) ELSE YearOf(t) + 1

\* the intersection of hydrologic year N with the ordered query interval
IntersectionStart(N) == MaxOf(lo_time, HydroYearStart(N))
IntersectionEnd(N) == MinOf(hi_time, HydroYearEnd(N))

ResultYears == { yearly_results[i].year : i \in 1 .. Len(yearly_results) }

(***************************************************************************)
(* C8: for start # end the union of the intervals emitted by               *)
(* compute_hydrologic_year_volumes is the ordered query interval           *)
(* [min(start, end), max(start, end)]: every instant of the query interval *)
(* lies in some emitted interval, and no emitted interval leaves it.       *)
(***************************************************************************)
C8_SplitCoverage ==
  (HydroCalled /\ start_time # end_time) =>
    /\ \A u \in HydroQueryTimes :
         (lo_time <= u /\ u <= hi_time) =>
           \E i \in 1 .. Len(yearly_results) :
             /\ yearly_results[i].interval_start <= u
             /\ u <= yearly_results[i].interval_end
    /\ \A i \in 1 .. Len(yearly_results) :
         /\ lo_time <= yearly_results[i].interval_start
         /\ yearly_results[i].interval_end <= hi_time

(***************************************************************************)
(* C9: compute_hydrologic_year_volumes returns, in strictly ascending year *)
(* order, exactly one result for each hydrologic year N in                 *)
(* year(start)..year(end) whose intersection with [start, end] has         *)
(* intersection_start < intersection_end, and none for any other year;     *)
(* each result carries that intersection, which lies inside year N, and    *)
(* the volume calculate_volume gives over it.                              *)
(***************************************************************************)
C9_YearResults ==
  HydroCalled =>
    /\ \A i \in 1 .. Len(yearly_results) - 1 :
         yearly_results[i].year < yearly_results[i + 1].year
    /\ ResultYears =
         { N \in HydroYearOf(lo_time) .. HydroYearOf(hi_time) :
             IntersectionStart(N) < IntersectionEnd(N) }
    /\ \A i \in 1 .. Len(yearly_results) :
         LET r == yearly_results[i]
         IN  /\ r.interval_start = IntersectionStart(r.year)
             /\ r.interval_end = IntersectionEnd(r.year)
             /\ HydroYearStart(r.year) <= r.interval_start
             /\ r.interval_end <= HydroYearEnd(r.year)
             /\ r.volume_m3 = calculate_volume(data, r.interval_start, r.interval_end)

\* several years emitted, the last year of the range omitted, a volume counted
C9_Witness ==
  /\ HydroCalled
  /\ Len(yearly_results) >= 2
  /\ HydroYearOf(hi_time) \notin ResultYears
  /\ \E i \in 1 .. Len(yearly_results) : yearly_results[i].volume_m3 > 0

(***************************************************************************)
(* What the claims about the lookup table compare interp with.             *)
(***************************************************************************)
Interpolated == pc = "interp"

\* the y values of the pairs whose x is v
YsAt(v) == { ys[i] : i \in { j \in 1 .. Len(xs) : xs[j] = v } }

\* x occurs exactly once among the table's x-coordinates
OccursOnce(v) == Cardinality({ j \in 1 .. Len(xs) : xs[j] = v }) = 1

Returned(v) == y = [kind |-> "value", num |-> v, den |-> 1]

(***************************************************************************)
(* C10 as stated: for a table of at least two pairs sorted by x, interp(x) *)
(* is the y of the minimum-x pair for x <= min(xs), the y of the maximum-x *)
(* pair for x >= max(xs), and interp(xs[i]) = ys[i] for every index i.     *)
(***************************************************************************)
C10_ReproducesEveryPoint ==
  (Interpolated /\ Len(xs) >= 2) =>
    /\ x <= xs[1] => \E v \in YsAt(xs[1]) : Returned(v)
    /\ x >= xs[Len(xs)] => \E v \in YsAt(xs[Len(xs)]) : Returned(v)
    /\ \A i \in 1 .. Len(xs) : xs[i] = x => Returned(ys[i])

(***************************************************************************)
(* C10 amended: for a table of at least two pairs sorted by x, interp(x)   *)
(* is the y of the minimum-x pair for x <= min(xs) (the first pair of the  *)
(* sorted table), the y of the maximum-x pair for x >= max(xs) (the last   *)
(* pair, when x > min(xs)), and interp(xs[i]) = ys[i] for every index i    *)
(* whose x occurs only once in the table.                                  *)
(***************************************************************************)
C10_ClampsAndUniquePoints ==
  (Interpolated /\ Len(xs) >= 2) =>
    /\ x <= xs[1] => Returned(ys[1])
    /\ x >= xs[Len(xs)] =>
         /\ \E v \in YsAt(xs[Len(xs)]) : Returned(v)
         /\ x > xs[1] => Returned(ys[Len(ys)])
    /\ \A i \in 1 .. Len(xs) : (xs[i] = x /\ OccursOnce(x)) => Returned(ys[i])

\* an interior table point, reached through the bracket arithmetic, whose y
\* no other pair of the table has
C10_Witness ==
  /\ Interpolated
  /\ Len(xs) >= 3
  /\ xs[1] < x /\ x < xs[Len(xs)]
  /\ \E i \in 1 .. Len(xs) : xs[i] = x /\ OccursOnce(x) /\ Returned(ys[i])
  /\ \A i \in 1 .. Len(xs) : xs[i] # x => ys[i] # y.num

(***************************************************************************)
(* C11: a lookup table built from fewer than 2 pairs is rejected with      *)
(* InvalidTable: building it does not return a table, and evaluating it    *)
(* does not return a value.                                                *)
(***************************************************************************)
C11_SmallTableRejected ==
  Len(rows) < 2 =>
    /\ pc # "loaded"
    /\ Interpolated => y.kind = "InvalidTable"

(***************************************************************************)
(* What the claim about the daily extremes compares them with.             *)
(***************************************************************************)
ExtremesCalled == pc = "get_daily_extremes"

\* the samples with start <= timestamp <= end, endpoints ordered
Qualifying == { i \in 1 .. Len(data) : lo_time <= data[i][1] /\ data[i][1] <= hi_time }

\* the qualifying samples of calendar day <<year, month, day>>
OnDay(dd) == { i \in Qualifying : data[i][1] \div 86400 = DaysFromCivil(dd[1], dd[2], dd[3]) }

QualifyingDays == { CivilFromDays(data[i][1] \div 86400) : i \in Qualifying }

(***************************************************************************)
(* C12: get_daily_extremes (endpoints swapped if start > end, not clipped  *)
(* to the data span) returns exactly one entry per calendar day that has a *)
(* sample with start <= timestamp <= end, a sample exactly at end          *)
(* included, in strictly ascending date order; each entry's min and max    *)
(* are the minimum and maximum over exactly that day's samples in          *)
(* [start, end]; the result is empty when no sample qualifies.             *)
(***************************************************************************)
C12_DailyExtremes ==
  ExtremesCalled =>
    /\ Len(extremes) = Cardinality(QualifyingDays)
    /\ { extremes[k].date : k \in 1 .. Len(extremes) } = QualifyingDays
    /\ \A k \in 1 .. Len(extremes) - 1 :
         LET a == extremes[k].date
             b == extremes[k + 1].date
         IN  DaysFromCivil(a[1], a[2], a[3]) < DaysFromCivil(b[1], b[2], b[3])
    /\ \A k \in 1 .. Len(extremes) :
         LET S == OnDay(extremes[k].date)
         IN  /\ \E i \in S : data[i][2] = extremes[k].min
             /\ \E i \in S : data[i][2] = extremes[k].max
             /\ \A i \in S : extremes[k].min <= data[i][2]
                             /\ data[i][2] <= extremes[k].max
    /\ Qualifying = {} => extremes = <<>>

\* two days reported, the first with min < max, the second holding only the
\* sample that lies exactly at end; a sample before start left out
C12_Witness ==
  /\ ExtremesCalled
  /\ Len(extremes) = 2
  /\ extremes[1].min < extremes[1].max
  /\ start_time > end_time
  /\ \E i \in Qualifying : data[i][1] = hi_time /\ OnDay(extremes[2].date) = {i}
  /\ Qualifying # 1 .. Len(data)

\* the indices of the pairs whose x is v
IndicesAt(v) == { j \in 1 .. Len(xs) : xs[j] = v }

FirstIndexAt(v) == CHOOSE i \in IndicesAt(v) : \A j \in IndicesAt(v) : i <= j

\* x lies strictly between min(xs) and max(xs)
Interior == xs # <<>> /\ xs[1] < x /\ x < xs[Len(xs)]

\* the bracket of interp: i = bisect_left(xs, x), x0 = xs[i - 1], x1 = xs[i]
\* (0-based), the pairs i and i + 1 counted from 1
BracketIndex == bisect_left(xs, x, 0, Len(xs))
BracketX0 == xs[BracketIndex]
BracketX1 == xs[BracketIndex + 1]

(***************************************************************************)
(* C13: when several pairs of the table have the same x, interp at that x  *)
(* returns the y of the first of them in the sorted order, whether the     *)
(* tied x is the minimum, an interior x or the maximum.                    *)
(***************************************************************************)
C13_FirstOfTiedPairs ==
  (Interpolated /\ Cardinality(IndicesAt(x)) >= 2) =>
    Returned(ys[FirstIndexAt(x)])

(***************************************************************************)
(* C14: for a table sorted ascending by x, duplicates permitted, and       *)
(* min(xs) < x < max(xs), the bracket of the leftmost-insertion search has *)
(* x0 < x <= x1, so x1 - x0 is not zero and interp returns a value.        *)
(***************************************************************************)
C14_BracketStrict ==
  (Interpolated /\ Interior) =>
    /\ 1 <= BracketIndex /\ BracketIndex < Len(xs)
    /\ BracketX0 < x
    /\ x <= BracketX1
    /\ BracketX1 - BracketX0 # 0
    /\ y.kind = "value"

\* x is an interior x-coordinate that two pairs share
C14_Witness ==
  /\ Interpolated
  /\ Interior
  /\ Cardinality(IndicesAt(x)) >= 2
  /\ y.kind = "value"

(***************************************************************************)
(* C15 as stated: when x is strictly between min(xs) and max(xs) and       *)
(* equals a table x-coordinate, the selected segment starts at that point  *)
(* (x0 = x), t = (x - x0) / (x1 - x0) is 0 and the result is that point's  *)
(* y.                                                                      *)
(***************************************************************************)
C15_SegmentStartsAtPoint ==
  (Interpolated /\ Interior /\ IndicesAt(x) # {}) =>
    /\ BracketX0 = x
    /\ x - BracketX0 = 0
    /\ \E i \in IndicesAt(x) : Returned(ys[i])

(***************************************************************************)
(* C15 amended: when x is strictly between min(xs) and max(xs) and equals  *)
(* a table x-coordinate, the selected segment ends at that point (x1 = x,  *)
(* x0 < x), t = (x - x0) / (x1 - x0) is 1 and the result is that point's   *)
(* y, the y of the first pair with that x.                                 *)
(***************************************************************************)
C15_SegmentEndsAtPoint ==
  (Interpolated /\ Interior /\ IndicesAt(x) # {}) =>
    /\ BracketX1 = x
    /\ BracketX0 < x
    /\ x - BracketX0 = BracketX1 - BracketX0
    /\ BracketIndex + 1 = FirstIndexAt(x)
    /\ Returned(ys[FirstIndexAt(x)])

\* an interior table point whose y differs from the y where the segment starts
C15_Witness ==
  /\ Interpolated
  /\ Interior
  /\ IndicesAt(x) # {}
  /\ ys[BracketIndex] # ys[BracketIndex + 1]
  /\ Returned(ys[BracketIndex + 1])

(***************************************************************************)
(* C16: when calculate_volume gets past its normalisation (no early return *)
(* of 0.0), the working endpoints satisfy span.start <= start < end <=     *)
(* span.end, and the anchor search finds a sample with timestamp <= start: *)
(* prev_time is never None.                                                *)
(***************************************************************************)
C16_NormalizerGuarantee ==
  Called =>
    LET iv == NormalizeInterval(data, start_time, end_time)
    IN  iv # <<>> =>
          /\ first_timestamp(data) <= iv[1]
          /\ iv[1] < iv[2]
          /\ iv[2] <= last_timestamp(data)
          /\ FindQAtStart(data, iv[1], 1, 0) # 0
          /\ data[FindQAtStart(data, iv[1], 1, 0)][1] <= iv[1]

\* an interval that reaches beyond both ends of the data and is clipped
C16_Witness ==
  /\ Called
  /\ NormalizeInterval(data, start_time, end_time) # <<>>
  /\ lo_time < first_timestamp(data)
  /\ hi_time > last_timestamp(data)
  /\ volume > 0

RECURSIVE SumVolumes(_, _)
SumVolumes(results, i) ==
  IF i > Len(results) THEN 0
  ELSE results[i].volume_m3 + SumVolumes(results, i + 1)

(***************************************************************************)
(* C17: for a non-empty time-ordered series with non-negative values,      *)
(* equal timestamps permitted, the volumes returned by                     *)
(* compute_hydrologic_year_volumes sum to at most calculate_volume over    *)
(* the same interval.                                                      *)
(***************************************************************************)
C17_YearlyWithinTotal ==
  HydroCalled =>
    SumVolumes(yearly_results, 1) <= calculate_volume(data, start_time, end_time)

====
